---------------------------- MODULE Spec2Model ----------------------------
(***************************************************************************)
(* kTLS RX offload of mlx5e: the per-connection offload context, its       *)
(* resync engine and its teardown (en_accel/ktls_rx.c).                    *)
(*                                                                         *)
(* Execution contexts: one NAPI context per receive queue (the fast path   *)
(* of resync_update_sn, and on the context's own channel also the ICOSQ    *)
(* completions), the work items rule.work and resync.work on the rx_wq     *)
(* workqueue, the caller of add_rx / del_rx and the caller of rx_resync.   *)
(***************************************************************************)
EXTENDS Integers, Sequences, FiniteSets, TLC

(* ------------------------------ bounds -------------------------------- *)
MaxCtx == 2          \* contexts kzalloc'ed by mlx5e_ktls_add_rx
MaxAdd == 1          \* of them, on a connection that has no context
MaxStim == 2         \* CQE_TLS_OFFLOAD_RESYNC packets of the connection
MaxResync == 1       \* calls of mlx5e_ktls_rx_resync
MaxOther == 1        \* WQEs other users of the shared async ICOSQ post
SqSize == 3          \* WQEs the async ICOSQ has room for

Ctx == 1..MaxCtx
NULL == 0
Queues == {0, 1}     \* receive queues (channels) of the device
RxQ == 0             \* mlx5e_accel_sk_get_rxq(sk): the context's channel
StartSns == {1000}            \* start_offload_tcp_sn given to add_rx
PktLens == {1448}             \* skb->len - depth of a packet
\* th->seq of the k-th packet of the connection that asks for a resync
PktSeq(k) == 2000 + k * 1448
PktSeqs == {PktSeq(k) : k \in 0..(MaxStim - 1)}
HwSeqs == {70000}             \* hw_resync_tcp_sn in a GET_PSV response
ResyncSeqs == {1050}          \* seq given to mlx5e_ktls_rx_resync
RcdSns == {7}                 \* rcd_sn given to mlx5e_ktls_rx_resync
CryptoRecSeqs == {3}          \* crypto_info->rec_seq given to add_rx

TRACKING == "TRACKING"
NO_OFFLOAD == "NO_OFFLOAD"
TrackerStates == {"TRACKING", "SEARCHING"}
AuthStates == {"NO_OFFLOAD", "OFFLOAD"}

VARIABLES
    ctxPtr,     \* *__tls_driver_ctx(tls_ctx, RX): NULL or a context
    nalloc,     \* contexts allocated so far
    ctx,        \* ctx[c]: the fields of struct mlx5e_ktls_offload_context_rx
    wq,         \* tls->rx_wq: for each work item whether it is pending, running
    sq,         \* sq->db.wqe_info of the channel's async ICOSQ, oldest first
    db,         \* how many of the queued WQEs the doorbell has announced
    napi,       \* napi[q]: what the NAPI context of queue q is executing
    del,        \* the thread inside mlx5e_ktls_del_rx
    stats,      \* struct mlx5e_rq_stats counters (summed over the channels)
    tls,        \* what the TLS record layer was told (request_start/_end)
    bufs,       \* struct mlx5e_ktls_rx_resync_buf allocated and not kfree'd
    ret,        \* return value of the last mlx5e_ktls_add_rx
    budget,     \* inputs consumed so far
    hist        \* history of each context: what was acquired, released, seen

vars == <<ctxPtr, nalloc, ctx, wq, sq, db, napi, del, stats, tls, bufs, ret,
          budget, hist>>

(* --------------------------- pure helpers ----------------------------- *)

\* cpu_to_be32 on a little-endian CPU: the four bytes reversed.
cpu_to_be32(x) ==
    LET b0 == x % 256
        b1 == (x \div 256) % 256
        b2 == (x \div 65536) % 256
        b3 == (x \div 16777216) % 256
    IN  b0 * 16777216 + b1 * 65536 + b2 * 256 + b3

\* an increment by two
refcount_inc_twice(v) == v + 2

\* refcount_inc / refcount_dec on refcount_t
refcount_inc(v) == v + 1
refcount_dec(v) == v - 1

\* mlx5e_wqc_has_room_for: room for n more WQEs in the ICOSQ
has_room(q, n) == Len(q) + n <= SqSize

\* a completion whose complete() calls are lost
complete_lost(done) == done

\* complete(&priv_rx->add_ctx): one more waiter may pass
complete(done) == done + 1

WorkIdle == [pending |-> FALSE, pc |-> "idle"]

\* kzalloc(sizeof(*priv_rx)): every field zero
ZeroCtx ==
    [mem |-> "none", deleting |-> FALSE, refcnt |-> 0, key_id |-> "none",
     tirn |-> "none", rule |-> "null", add_ctx |-> 0, seq |-> 0,
     sw_rcd_sn_be |-> 0, rec_seq |-> 0]

ZeroHist ==
    [created |-> FALSE, acquired |-> <<>>, released |-> <<>>,
     registered |-> FALSE, timedOut |-> FALSE, drained |-> 0,
     ruleQuiet |-> "no", resyncQuiet |-> "no",
     ruleRuns |-> 0, completes |-> 0, installs |-> 0, ruleQueued |-> 0,
     initDone |-> FALSE, uaf |-> {}, sleptAt |-> 0, sleptOut |-> 0,
     notified |-> 0,
     ruleOut |-> 0, ruleLate |-> 0]

ZeroStats ==
    [tls_ctx |-> 0, tls_del |-> 0, tls_resync_req_pkt |-> 0,
     tls_resync_req_start |-> 0, tls_resync_req_end |-> 0,
     tls_resync_req_skip |-> 0, tls_resync_res_ok |-> 0,
     tls_resync_res_skip |-> 0]

NapiIdle == [pc |-> "idle", priv_rx |-> NULL, seq |-> 0, datalen |-> 0]
DelIdle == [pc |-> "idle", priv_rx |-> NULL, warned |-> FALSE, oops |-> FALSE,
            calls |-> 0, refcnt |-> 0, expired |-> FALSE]

Wi(type, c, s) == [wqe_type |-> type, priv_rx |-> c, seq |-> s]

Freed(c) == ctx[c].mem = "freed"
Live(c) == ctx[c].mem = "live"

\* a step of `who` dereferences context c: recorded when c was kfree'd
Touch(c, who) ==
    IF Freed(c) THEN [hist EXCEPT ![c].uaf = @ \cup {who}] ELSE hist

Init ==
    /\ ctxPtr = NULL
    /\ nalloc = 0
    /\ ctx = [c \in Ctx |-> ZeroCtx]
    /\ wq = [c \in Ctx |-> [rule |-> WorkIdle, resync |-> WorkIdle]]
    /\ sq = <<>>
    /\ db = 0
    /\ napi = [q \in Queues |-> NapiIdle]
    /\ del = DelIdle
    /\ stats = ZeroStats
    /\ tls = [req_start |-> <<>>, req_end |-> <<>>]
    /\ bufs = 0
    /\ ret = "none"
    /\ budget = [stim |-> 0, resync |-> 0, other |-> 0]
    /\ hist = [c \in Ctx |-> ZeroHist]


(* ------------------------ posting descriptors ------------------------- *)

\* a post that embeds the sequence number the session held before the call
post_static_params_stale(q, c, r) ==
    IF ~has_room(q, 1) THEN [ok |-> FALSE, sq |-> q]
    ELSE [ok |-> TRUE, sq |-> Append(q, Wi("UMR_TLS", c, ctx[c].seq))]

\* post_static_params: the UMR_TLS WQE embeds priv_rx->resync.seq
post_static_params(q, c, r) ==
    IF ~has_room(q, 1) THEN [ok |-> FALSE, sq |-> q]
    ELSE [ok |-> TRUE, sq |-> Append(q, Wi("UMR_TLS", c, r.seq))]

\* post_progress_params: the SET_PSV_TLS WQE embeds next_record_tcp_sn
post_progress_params(q, c, next_record_tcp_sn) ==
    IF ~has_room(q, 1) THEN [ok |-> FALSE, sq |-> q]
    ELSE [ok |-> TRUE, sq |-> Append(q, Wi("SET_PSV_TLS", c, next_record_tcp_sn))]

\* a post that queues the progress params first
post_rx_param_wqes_swapped(q, d, c, r, next_record_tcp_sn) ==
    LET s1 == post_progress_params(q, c, next_record_tcp_sn)
        s2 == post_static_params(s1.sq, c, r)
    IN  IF ~s1.ok THEN [ok |-> FALSE, sq |-> q, db |-> d, notified |-> 0]
        ELSE IF ~s2.ok
             THEN [ok |-> FALSE, sq |-> s1.sq, db |-> d, notified |-> 0]
        ELSE [ok |-> TRUE, sq |-> s2.sq, db |-> Len(s2.sq), notified |-> 1]

\* post_rx_param_wqes: both WQEs, then one doorbell (mlx5e_notify_hw); on
\* ENOSPC the skip statistic and complete(&priv_rx->add_ctx), and no doorbell
post_rx_param_wqes(q, d, c, r, next_record_tcp_sn) ==
    LET s1 == post_static_params(q, c, r)
        s2 == post_progress_params(s1.sq, c, next_record_tcp_sn)
    IN  IF ~s1.ok THEN [ok |-> FALSE, sq |-> q, db |-> d, notified |-> 0]
        ELSE IF ~s2.ok
             THEN [ok |-> FALSE, sq |-> s1.sq, db |-> d, notified |-> 0]
        ELSE [ok |-> TRUE, sq |-> s2.sq, db |-> Len(s2.sq), notified |-> 1]

(* --------------------------- create (add_rx) -------------------------- *)

\* resync_init
resync_init(r) == [r EXCEPT !.refcnt = 1]

\* the error labels of mlx5e_ktls_add_rx: what is released, in which order
err_create_key == <<"mem">>
err_create_tir == <<"key", "mem">>
err_post_wqes == <<"tir", "key", "mem">>

\* mlx5e_ktls_add_rx(netdev, sk, crypto_info, start_offload_tcp_sn); `outcome`
\* is what kzalloc, mlx5_ktls_create_key and mlx5e_ktls_create_tir return
mlx5e_ktls_add_rx(rcd_sn, start_offload_tcp_sn, outcome) ==
    LET c == nalloc + 1
        fresh == [ZeroCtx EXCEPT !.mem = "live"]
        withKey == [fresh EXCEPT !.key_id = "held", !.rec_seq = rcd_sn]
        withTir == resync_init([withKey EXCEPT !.tirn = "held"])
        post == post_rx_param_wqes(sq, db, c, withTir, start_offload_tcp_sn)
    IN
    /\ nalloc < MaxCtx
    /\ del.pc = "idle"
    /\ UNCHANGED <<wq, napi, del, tls, bufs, budget>>
    /\ CASE outcome = "ENOMEM" ->
              /\ ret' = "ENOMEM"
              /\ UNCHANGED <<ctxPtr, nalloc, ctx, sq, db, stats, hist>>
         [] outcome = "EKEY" ->
              /\ ret' = "EKEY"
              /\ nalloc' = c
              /\ ctx' = [ctx EXCEPT ![c] = [fresh EXCEPT !.mem = "freed"]]
              /\ hist' = [hist EXCEPT ![c].acquired = <<"mem">>,
                                      ![c].released = err_create_key]
              /\ UNCHANGED <<ctxPtr, sq, db, stats>>
         [] outcome = "ETIR" ->
              /\ ret' = "ETIR"
              /\ nalloc' = c
              /\ ctxPtr' = c
              /\ ctx' = [ctx EXCEPT ![c] = [withKey EXCEPT !.mem = "freed",
                                                           !.key_id = "released"]]
              /\ hist' = [hist EXCEPT ![c].acquired = <<"mem", "key">>,
                                      ![c].registered = TRUE,
                                      ![c].released = err_create_tir]
              /\ UNCHANGED <<sq, db, stats>>
         [] outcome = "OK" /\ ~post.ok ->
              /\ ret' = "ENOSPC"
              /\ nalloc' = c
              /\ ctxPtr' = c
              /\ ctx' = [ctx EXCEPT ![c] = [withTir EXCEPT !.mem = "freed",
                                                           !.add_ctx = complete(0),
                                                           !.tirn = "released",
                                                           !.key_id = "released"]]
              /\ sq' = post.sq
              /\ db' = post.db
              /\ stats' = [stats EXCEPT !.tls_resync_req_skip = @ + 1]
              /\ hist' = [hist EXCEPT ![c].acquired = <<"mem", "key", "tir">>,
                                      ![c].registered = TRUE,
                                      ![c].completes = 1,
                                      ![c].released = err_post_wqes]
         [] outcome = "OK" /\ post.ok ->
              /\ ret' = "OK"
              /\ nalloc' = c
              /\ ctxPtr' = c
              /\ ctx' = [ctx EXCEPT ![c] = withTir]
              /\ sq' = post.sq
              /\ db' = post.db
              /\ stats' = [stats EXCEPT !.tls_ctx = @ + 1]
              /\ hist' = [hist EXCEPT ![c].acquired = <<"mem", "key", "tir">>,
                                      ![c].registered = TRUE,
                                      ![c].notified = post.notified,
                                      ![c].created = TRUE]

AddOutcomes == {"ENOMEM", "EKEY", "ETIR", "OK"}

\* the TLS layer enables RX offload on a connection that has none
Create ==
    /\ IF ctxPtr = NULL THEN TRUE ELSE ~Live(ctxPtr)
    /\ nalloc < MaxAdd
    /\ \E rcd_sn \in CryptoRecSeqs, sn \in StartSns, o \in AddOutcomes :
          mlx5e_ktls_add_rx(rcd_sn, sn, o)

\* the caller of add_rx calls it whether or not the connection has a context
CreateAny ==
    \E rcd_sn \in CryptoRecSeqs, sn \in StartSns, o \in AddOutcomes :
        mlx5e_ktls_add_rx(rcd_sn, sn, o)

\* another user of the shared async ICOSQ posts a WQE and rings the doorbell
OtherPost ==
    /\ budget.other < MaxOther
    /\ has_room(sq, 1)
    /\ sq' = Append(sq, Wi("NOP", NULL, 0))
    /\ db' = Len(sq')
    /\ budget' = [budget EXCEPT !.other = @ + 1]
    /\ UNCHANGED <<ctxPtr, nalloc, ctx, wq, napi, del, stats, tls, bufs, ret, hist>>


(* ----------------------- access to a context -------------------------- *)

\* a store to a field of context c; memory that was kfree'd is not the
\* context any more, the store lands elsewhere
Store(c, r) == IF Freed(c) THEN ctx ELSE [ctx EXCEPT ![c] = r]

\* a test that reads the flag the wrong way round
test_bit_inverted(c, any) == IF Freed(c) THEN any ELSE ~ctx[c].deleting

\* test_bit(MLX5E_PRIV_RX_FLAG_DELETING, priv_rx->flags); a read of memory
\* that was kfree'd yields either value (`any`)
test_bit(c, any) == IF Freed(c) THEN any ELSE ctx[c].deleting

\* a queue_work that reports a pending work item as newly queued
queue_work_always(w) == [ok |-> TRUE, work |-> [w EXCEPT !.pending = TRUE]]

\* queue_work(wq, work): FALSE when the work item is already pending
queue_work(w) == [ok |-> ~w.pending, work |-> [w EXCEPT !.pending = TRUE]]

(* ------------------------ fast path (NAPI) ---------------------------- *)

\* resync_update_sn up to the lookup in resync_queue_get_psv:
\* sk from the headers, priv_rx = mlx5e_get_ktls_rx_priv_ctx(tls_get_ctx(sk))
FpLookup(q, sk_ok, seq, datalen) ==
    /\ napi[q].pc = "idle"
    /\ budget.stim < MaxStim
    /\ budget' = [budget EXCEPT !.stim = @ + 1]
    /\ stats' = [stats EXCEPT !.tls_resync_req_pkt = @ + 1]
    /\ napi' = IF sk_ok /\ ctxPtr # NULL
               THEN [napi EXCEPT ![q] = [pc |-> "test_bit", priv_rx |-> ctxPtr,
                                         seq |-> seq, datalen |-> datalen]]
               ELSE napi
    /\ UNCHANGED <<ctxPtr, nalloc, ctx, wq, sq, db, del, tls, bufs, ret, hist>>

\* resync_queue_get_psv: the test of the deletion flag
FpTest(q, any) ==
    LET c == napi[q].priv_rx IN
    /\ napi[q].pc = "test_bit"
    /\ hist' = Touch(c, "fast_path")
    /\ napi' = IF test_bit(c, any) THEN [napi EXCEPT ![q] = NapiIdle]
               ELSE [napi EXCEPT ![q].pc = "refcount_inc"]
    /\ UNCHANGED <<ctxPtr, nalloc, ctx, wq, sq, db, del, stats, tls, bufs, ret,
                   budget>>

\* a fast path that forgets the decrement when queue_work returns false
resync_queue_get_psv_no_dec(refcnt, w) ==
    [refcnt |-> refcount_inc(refcnt), work |-> queue_work(w).work,
     ret |-> TRUE]

\* a fast path that returns false when the work was already pending
resync_queue_get_psv_ret_queued(refcnt, w) ==
    LET inc == refcount_inc(refcnt)
        queued == queue_work(w)
    IN  [refcnt |-> IF queued.ok THEN inc ELSE refcount_dec(inc),
         work |-> queued.work, ret |-> queued.ok]

\* resync_queue_get_psv past the two tests: refcount_inc, queue_work, and
\* refcount_dec when the work was not queued; it returns true either way
resync_queue_get_psv(refcnt, w) ==
    LET inc == refcount_inc(refcnt)
        queued == queue_work(w)
    IN  [refcnt |-> IF queued.ok THEN inc ELSE refcount_dec(inc),
         work |-> queued.work, ret |-> TRUE]

\* resync_queue_get_psv from refcount_inc on, then the rest of
\* resync_update_sn: tls_offload_rx_resync_async_request_start(sk, seq, datalen)
FpIncQueue(q) ==
    LET c == napi[q].priv_rx
        r == resync_queue_get_psv(ctx[c].refcnt, wq[c].resync)
    IN
    /\ napi[q].pc = "refcount_inc"
    /\ hist' = Touch(c, "fast_path")
    /\ wq' = [wq EXCEPT ![c].resync = r.work]
    /\ ctx' = Store(c, [ctx[c] EXCEPT !.refcnt = r.refcnt])
    /\ tls' = IF r.ret
              THEN [tls EXCEPT !.req_start =
                       Append(@, [seq |-> napi[q].seq, len |-> napi[q].datalen])]
              ELSE tls
    /\ stats' = IF r.ret
                THEN [stats EXCEPT !.tls_resync_req_start = @ + 1]
                ELSE stats
    /\ napi' = [napi EXCEPT ![q] = NapiIdle]
    /\ UNCHANGED <<ctxPtr, nalloc, sq, db, del, bufs, ret, budget>>

(* ----------------------- resync worker (rx_wq) ------------------------ *)

\* a post that queues its descriptor and then reports a mapping error
resync_post_get_progress_params_late_error(q, c, o) ==
    IF o = "ENOMEM" THEN [ok |-> FALSE, sq |-> q, nbuf |-> 0]
    ELSE IF ~has_room(q, 1) THEN [ok |-> FALSE, sq |-> q, nbuf |-> 1]
    ELSE IF o = "EDMA"
         THEN [ok |-> FALSE, sq |-> Append(q, Wi("GET_PSV_TLS", c, 0)),
               nbuf |-> 1]
    ELSE [ok |-> TRUE, sq |-> Append(q, Wi("GET_PSV_TLS", c, 0)), nbuf |-> 1]

\* resync_post_get_progress_params; `o` is what kzalloc and dma_map_single
\* return. nbuf: buffers allocated by the call
resync_post_get_progress_params(q, c, o) ==
    IF o = "ENOMEM" THEN [ok |-> FALSE, sq |-> q, nbuf |-> 0]
    ELSE IF o = "EDMA" THEN [ok |-> FALSE, sq |-> q, nbuf |-> 1]
    ELSE IF ~has_room(q, 1) THEN [ok |-> FALSE, sq |-> q, nbuf |-> 1]
    ELSE [ok |-> TRUE, sq |-> Append(q, Wi("GET_PSV_TLS", c, 0)), nbuf |-> 1]

PostOutcomes == {"ENOMEM", "EDMA", "OK"}

\* resync_handle_work starts: the work item stops being pending, the
\* deletion flag is tested
ResyncWorkStart(c, any) ==
    /\ wq[c].resync.pending
    /\ wq[c].resync.pc = "idle"
    /\ hist' = Touch(c, "resync_work")
    /\ wq' = [wq EXCEPT ![c].resync =
                 [pending |-> FALSE,
                  pc |-> IF test_bit(c, any) THEN "refcount_dec" ELSE "post"]]
    /\ UNCHANGED <<ctxPtr, nalloc, ctx, sq, db, napi, del, stats, tls, bufs,
                   ret, budget>>

\* resync_handle_work, the branch taken: the decrement, or the post under
\* async_icosq_lock with the decrement when nothing was posted
resync_handle_work(c, o) ==
    LET post == resync_post_get_progress_params(sq, c, o)
        dec == [ctx[c] EXCEPT !.refcnt = refcount_dec(@)]
    IN
    /\ wq[c].resync.pc # "idle"
    /\ hist' = Touch(c, "resync_work")
    /\ wq' = [wq EXCEPT ![c].resync.pc = "idle"]
    /\ IF wq[c].resync.pc = "refcount_dec"
       THEN /\ ctx' = Store(c, dec)
            /\ UNCHANGED <<sq, db, bufs, stats>>
       ELSE /\ sq' = post.sq
            /\ bufs' = bufs + post.nbuf
            /\ db' = IF post.ok THEN Len(post.sq) ELSE db
            /\ ctx' = IF post.ok THEN ctx ELSE Store(c, dec)
            /\ stats' = IF post.ok THEN stats
                        ELSE [stats EXCEPT !.tls_resync_req_skip = @ + 1]
    /\ UNCHANGED <<ctxPtr, nalloc, napi, del, tls, ret, budget>>

ResyncWorkFinish(c) ==
    IF wq[c].resync.pc = "post"
    THEN \E o \in PostOutcomes : resync_handle_work(c, o)
    ELSE resync_handle_work(c, "OK")

(* --------------------- flow-install worker (rx_wq) -------------------- *)

\* a flow-install task that does not look at the deletion flag
rule_work_branch_ignore(deleting) == "add_sk"

\* accel_rule_handle_work: goto out when the deletion flag is set
rule_work_branch(deleting) == IF deleting THEN "out" ELSE "add_sk"

\* accel_rule_handle_work starts: the deletion flag is tested
RuleWorkStart(c, any) ==
    /\ wq[c].rule.pending
    /\ wq[c].rule.pc = "idle"
    /\ hist' = [Touch(c, "rule_work") EXCEPT ![c].ruleRuns = @ + 1]
    /\ wq' = [wq EXCEPT ![c].rule =
                 [pending |-> FALSE,
                  pc |-> rule_work_branch(test_bit(c, any))]]
    /\ UNCHANGED <<ctxPtr, nalloc, ctx, sq, db, napi, del, stats, tls, bufs,
                   ret, budget>>

\* accel_rule_handle_work, the rest: mlx5e_accel_fs_add_sk unless the flag
\* was set (`added`: the rule returned is no error), then complete(&add_ctx)
accel_rule_handle_work(c, added) ==
    LET install == wq[c].rule.pc = "add_sk" /\ added IN
    /\ wq[c].rule.pc # "idle"
    /\ wq' = [wq EXCEPT ![c].rule.pc = "idle"]
    /\ ctx' = Store(c, [ctx[c] EXCEPT
                           !.rule = IF install THEN "installed" ELSE @,
                           !.add_ctx = complete(@)])
    /\ hist' = [Touch(c, "rule_work") EXCEPT
                   ![c].completes = @ + 1,
                   ![c].ruleOut = IF wq[c].rule.pc = "out" THEN @ + 1 ELSE @,
                   ![c].ruleLate = IF install /\ test_bit(c, FALSE)
                                   THEN @ + 1 ELSE @,
                   ![c].installs = IF install THEN @ + 1 ELSE @]
    /\ UNCHANGED <<ctxPtr, nalloc, sq, db, napi, del, stats, tls, bufs, ret,
                   budget>>

RuleWorkFinish(c) ==
    IF wq[c].rule.pc = "add_sk"
    THEN \E added \in BOOLEAN : accel_rule_handle_work(c, added)
    ELSE accel_rule_handle_work(c, FALSE)


(* ------------------- completions (NAPI of channel RxQ) ---------------- *)

\* the ICOSQ completion switch on wi->wqe_type: which handler a completed
\* WQE is given to (the CQE handling of UMR_TLS is empty)
Dispatch(wqe_type) ==
    CASE wqe_type = "SET_PSV_TLS" -> "mlx5e_ktls_handle_ctx_completion"
      [] wqe_type = "GET_PSV_TLS" -> "mlx5e_ktls_handle_get_psv_completion"
      [] OTHER -> "none"

CqeReady(handler) ==
    /\ napi[RxQ].pc = "idle"
    /\ db > 0
    /\ sq # <<>>
    /\ Dispatch(Head(sq).wqe_type) = handler

\* a completion with no handler: the WQE leaves the queue
CqeEmpty ==
    /\ CqeReady("none")
    /\ sq' = Tail(sq)
    /\ db' = db - 1
    /\ UNCHANGED <<ctxPtr, nalloc, ctx, wq, napi, del, stats, tls, bufs, ret,
                   budget, hist>>

\* a handler that takes the two branches the wrong way round
ctx_completion_branch_swapped(deleting) ==
    IF deleting THEN "queue_work" ELSE "complete"

\* mlx5e_ktls_handle_ctx_completion: which branch the flag selects
ctx_completion_branch(deleting) ==
    IF deleting THEN "complete" ELSE "queue_work"

\* mlx5e_ktls_handle_ctx_completion: the test of the deletion flag
CtxCompletionTest(any) ==
    LET c == Head(sq).priv_rx IN
    /\ CqeReady("mlx5e_ktls_handle_ctx_completion")
    /\ sq' = Tail(sq)
    /\ db' = db - 1
    /\ hist' = [Touch(c, "ctx_completion") EXCEPT ![c].initDone = TRUE]
    /\ napi' = [napi EXCEPT ![RxQ] =
                   [pc |-> ctx_completion_branch(test_bit(c, any)),
                    priv_rx |-> c]]
    /\ UNCHANGED <<ctxPtr, nalloc, ctx, wq, del, stats, tls, bufs, ret, budget>>

\* mlx5e_ktls_handle_ctx_completion, the branch taken:
\* complete(&priv_rx->add_ctx) or queue_work(rx_wq, &rule->work)
mlx5e_ktls_handle_ctx_completion(c) ==
    /\ napi[RxQ].pc \in {"complete", "queue_work"}
    /\ napi[RxQ].priv_rx = c
    /\ napi' = [napi EXCEPT ![RxQ] = NapiIdle]
    /\ IF napi[RxQ].pc = "complete"
       THEN /\ ctx' = Store(c, [ctx[c] EXCEPT !.add_ctx = complete(@)])
            /\ hist' = [Touch(c, "ctx_completion") EXCEPT ![c].completes = @ + 1]
            /\ wq' = wq
       ELSE /\ wq' = [wq EXCEPT ![c].rule = queue_work(@).work]
            /\ hist' = [Touch(c, "ctx_completion") EXCEPT ![c].ruleQueued = @ + 1]
            /\ ctx' = ctx
    /\ UNCHANGED <<ctxPtr, nalloc, sq, db, del, stats, tls, bufs, ret, budget>>

CtxCompletionAct == \E c \in Ctx : mlx5e_ktls_handle_ctx_completion(c)

\* a handler that skips only when both fields are off
get_psv_branch_and(deleting, tracker_state, auth_state) ==
    IF deleting THEN "out"
    ELSE IF tracker_state # TRACKING /\ auth_state # NO_OFFLOAD THEN "skip"
    ELSE "end"

\* what mlx5e_ktls_handle_get_psv_completion does with the response:
\* "out" (flag set), "skip" (state not tracking / offload pending), "end"
get_psv_branch(deleting, tracker_state, auth_state) ==
    IF deleting THEN "out"
    ELSE IF tracker_state # TRACKING \/ auth_state # NO_OFFLOAD THEN "skip"
    ELSE "end"

\* an exit that forgets kfree(buf)
get_psv_out_leak(r, nbuf) ==
    [ctx |-> [r EXCEPT !.refcnt = refcount_dec(@)], bufs |-> nbuf]

\* the label out: of mlx5e_ktls_handle_get_psv_completion, which every
\* branch reaches: refcount_dec(&resync->refcnt); kfree(buf)
get_psv_out(r, nbuf) ==
    [ctx |-> [r EXCEPT !.refcnt = refcount_dec(@)], bufs |-> nbuf - 1]

\* mlx5e_ktls_handle_get_psv_completion(wi, sq); the response buffer holds
\* record_tracker_state, auth_state and hw_resync_tcp_sn
mlx5e_ktls_handle_get_psv_completion(tracker_state, auth_state, hw_seq, any) ==
    LET c == Head(sq).priv_rx
        branch == get_psv_branch(test_bit(c, any), tracker_state, auth_state)
        out == get_psv_out(ctx[c], bufs)
    IN
    /\ CqeReady("mlx5e_ktls_handle_get_psv_completion")
    /\ sq' = Tail(sq)
    /\ db' = db - 1
    /\ hist' = Touch(c, "get_psv_completion")
    /\ stats' = CASE branch = "skip" ->
                       [stats EXCEPT !.tls_resync_req_skip = @ + 1]
                  [] branch = "end" ->
                       [stats EXCEPT !.tls_resync_req_end = @ + 1]
                  [] OTHER -> stats
    /\ tls' = IF branch = "end"
              THEN [tls EXCEPT !.req_end = Append(@, cpu_to_be32(hw_seq))]
              ELSE tls
    /\ ctx' = Store(c, out.ctx)
    /\ bufs' = out.bufs
    /\ UNCHANGED <<ctxPtr, nalloc, wq, napi, del, ret, budget>>

GetPsvCompletion ==
    \E t \in TrackerStates, a \in AuthStates, s \in HwSeqs, any \in BOOLEAN :
        mlx5e_ktls_handle_get_psv_completion(t, a, s, any)

(* ------------------- authoritative answer (rx_resync) ----------------- *)

\* a re-issue that takes a reference on the session
resync_handle_seq_match_takes_ref(c, r) ==
    LET r1 == [r EXCEPT !.rec_seq = r.sw_rcd_sn_be,
                        !.refcnt = refcount_inc(@)]
        post == post_static_params(sq, c, r1)
    IN  [ctx |-> r1, ok |-> post.ok, sq |-> post.sq,
         db |-> IF post.ok THEN Len(post.sq) ELSE db,
         stats |-> IF post.ok
                   THEN [stats EXCEPT !.tls_resync_res_ok = @ + 1]
                   ELSE [stats EXCEPT !.tls_resync_res_skip = @ + 1]]

\* a re-issue that counts a success whether or not it posted
resync_handle_seq_match_counts_ok(c, r) ==
    LET r1 == [r EXCEPT !.rec_seq = r.sw_rcd_sn_be]
        post == post_static_params(sq, c, r1)
    IN  [ctx |-> r1, ok |-> post.ok, sq |-> post.sq,
         db |-> IF post.ok THEN Len(post.sq) ELSE db,
         stats |-> [stats EXCEPT !.tls_resync_res_ok = @ + 1]]

\* resync_handle_seq_match: rec_seq takes sw_rcd_sn_be, the static params
\* are posted again under async_icosq_lock. r: the context's fields
resync_handle_seq_match(c, r) ==
    LET r1 == [r EXCEPT !.rec_seq = r.sw_rcd_sn_be]
        post == post_static_params(sq, c, r1)
    IN  [ctx |-> r1, ok |-> post.ok, sq |-> post.sq,
         db |-> IF post.ok THEN Len(post.sq) ELSE db,
         stats |-> IF post.ok
                   THEN [stats EXCEPT !.tls_resync_res_ok = @ + 1]
                   ELSE [stats EXCEPT !.tls_resync_res_skip = @ + 1]]

\* mlx5e_ktls_rx_resync(netdev, sk, seq, rcd_sn)
mlx5e_ktls_rx_resync(seq, rcd_sn) ==
    LET c == ctxPtr
        r == [ctx[c] EXCEPT !.sw_rcd_sn_be = rcd_sn, !.seq = seq]
        m == resync_handle_seq_match(c, r)
    IN
    /\ budget.resync < MaxResync
    /\ budget' = [budget EXCEPT !.resync = @ + 1]
    /\ IF c = NULL
       THEN UNCHANGED <<ctx, sq, db, stats, hist>>
       ELSE /\ hist' = Touch(c, "rx_resync")
            /\ ctx' = Store(c, m.ctx)
            /\ sq' = m.sq
            /\ db' = m.db
            /\ stats' = m.stats
    /\ UNCHANGED <<ctxPtr, nalloc, wq, napi, del, tls, bufs, ret>>

RxResync == \E seq \in ResyncSeqs, rcd_sn \in RcdSns : mlx5e_ktls_rx_resync(seq, rcd_sn)


(* --------------------------- destroy (del_rx) ------------------------- *)

\* cancel_work_sync(work) once the work item is not running: TRUE when it
\* was pending
cancel_work_sync(w) == [ok |-> w.pending, work |-> [w EXCEPT !.pending = FALSE]]

\* a drain wait that is content with any count of at least 1
wait_for_resync_at_least(refcnt, expired) ==
    IF refcnt >= 1 THEN "return"
    ELSE IF expired THEN "warn" ELSE "sleep"

\* a drain wait that gives up after its first sleep
wait_for_resync_early_warn(refcnt, expired) ==
    IF refcnt = 1 THEN "return" ELSE "warn"

\* a drain wait that sleeps before it looks at the count
wait_for_resync_sleep_first(refcnt, expired) ==
    IF expired THEN "warn" ELSE "sleep"

\* a drain wait without a timeout
wait_for_resync_no_timeout(refcnt, expired) ==
    IF refcnt = 1 THEN "return" ELSE "sleep"

\* wait_for_resync, one round of the loop: "return" on refcnt == 1, else
\* after msleep "warn" when the 20 s have expired, "sleep" when not
wait_for_resync(refcnt, expired) ==
    IF refcnt = 1 THEN "return"
    ELSE IF expired THEN "warn" ELSE "sleep"

\* a destroy that never removes the steering rule
del_rx_releases_no_rule(r) == <<"tir", "key", "mem">>

\* what mlx5e_ktls_del_rx releases after the waits, in this order
del_rx_releases(r) ==
    (IF r.rule = "installed" THEN <<"rule">> ELSE <<>>)
        \o <<"tir", "key", "mem">>

\* the TLS layer calls tls_dev_del for a connection whose offload was
\* added, or once more for a connection it already called it for
DelCallable ==
    IF ctxPtr = NULL THEN del.calls > 0
    ELSE Live(ctxPtr) /\ hist[ctxPtr].created

\* mlx5e_ktls_del_rx: priv_rx = mlx5e_get_ktls_rx_priv_ctx(tls_ctx);
\* set_bit(MLX5E_PRIV_RX_FLAG_DELETING, priv_rx->flags)
DelSetBit ==
    /\ del.pc = "idle"
    /\ DelCallable
    /\ IF ctxPtr = NULL
       THEN /\ del' = [del EXCEPT !.oops = TRUE]
            /\ ctx' = ctx
       ELSE /\ del' = [del EXCEPT !.pc = "clear_ctx", !.priv_rx = ctxPtr]
            /\ ctx' = [ctx EXCEPT ![ctxPtr].deleting = TRUE]
    /\ UNCHANGED <<ctxPtr, nalloc, wq, sq, db, napi, stats, tls, bufs, ret,
                   budget, hist>>

\* mlx5e_set_ktls_rx_priv_ctx(tls_ctx, NULL)
DelClearCtx ==
    /\ del.pc = "clear_ctx"
    /\ ctxPtr' = NULL
    /\ del' = [del EXCEPT !.pc = "napi_synchronize"]
    /\ UNCHANGED <<nalloc, ctx, wq, sq, db, napi, stats, tls, bufs, ret,
                   budget, hist>>

\* napi_synchronize(&priv->channels.c[priv_rx->rxq]->napi): returns when the
\* NAPI context of that one channel is not inside a poll
NapiQuiet(q) == napi[q].pc = "idle"

DelNapiSync ==
    /\ del.pc = "napi_synchronize"
    /\ NapiQuiet(RxQ)
    /\ del' = [del EXCEPT !.pc = "cancel_rule"]
    /\ UNCHANGED <<ctxPtr, nalloc, ctx, wq, sq, db, napi, stats, tls, bufs,
                   ret, budget, hist>>

\* if (!cancel_work_sync(&priv_rx->rule.work)) wait_for_completion(...)
DelCancelRule ==
    LET c == del.priv_rx
        r == cancel_work_sync(wq[c].rule)
    IN
    /\ del.pc = "cancel_rule"
    /\ wq[c].rule.pc = "idle"
    /\ wq' = [wq EXCEPT ![c].rule = r.work]
    /\ del' = [del EXCEPT !.pc = IF r.ok THEN "cancel_resync"
                                 ELSE "wait_for_completion"]
    /\ hist' = IF r.ok THEN [hist EXCEPT ![c].ruleQuiet = "cancelled"] ELSE hist
    /\ UNCHANGED <<ctxPtr, nalloc, ctx, sq, db, napi, stats, tls, bufs, ret,
                   budget>>

\* wait_for_completion(&priv_rx->add_ctx)
DelWaitAddCtx ==
    LET c == del.priv_rx IN
    /\ del.pc = "wait_for_completion"
    /\ ctx[c].add_ctx > 0
    /\ ctx' = [ctx EXCEPT ![c].add_ctx = @ - 1]
    /\ del' = [del EXCEPT !.pc = "cancel_resync"]
    /\ hist' = [hist EXCEPT ![c].ruleQuiet = "finished"]
    /\ UNCHANGED <<ctxPtr, nalloc, wq, sq, db, napi, stats, tls, bufs, ret,
                   budget>>

\* a destroy that drops a reference whatever cancel_work_sync returns
cancel_resync_always_dec(refcnt, w) ==
    LET r == cancel_work_sync(w)
    IN  [ok |-> r.ok, work |-> r.work, refcnt |-> refcount_dec(refcnt)]

\* if (cancel_work_sync(&resync->work)) refcount_dec(&resync->refcnt)
cancel_resync(refcnt, w) ==
    LET r == cancel_work_sync(w)
    IN  [ok |-> r.ok, work |-> r.work,
         refcnt |-> IF r.ok THEN refcount_dec(refcnt) ELSE refcnt]

DelCancelResync ==
    LET c == del.priv_rx
        r == cancel_resync(ctx[c].refcnt, wq[c].resync)
    IN
    /\ del.pc = "cancel_resync"
    /\ wq[c].resync.pc = "idle"
    /\ wq' = [wq EXCEPT ![c].resync = r.work]
    /\ ctx' = [ctx EXCEPT ![c].refcnt = r.refcnt]
    /\ del' = [del EXCEPT !.pc = "wait_for_resync"]
    /\ hist' = [hist EXCEPT ![c].resyncQuiet =
                                IF r.ok THEN "cancelled" ELSE "finished"]
    /\ UNCHANGED <<ctxPtr, nalloc, sq, db, napi, stats, tls, bufs, ret, budget>>

\* wait_for_resync, the head of a round: refcnt = refcount_read(...);
\* return when it is 1, msleep(20) when not
DelWaitResync ==
    LET c == del.priv_rx
        w == wait_for_resync(ctx[c].refcnt, FALSE)
    IN
    /\ del.pc = "wait_for_resync"
    /\ del' = [del EXCEPT !.pc = IF w = "return" THEN "release" ELSE "msleep",
                          !.refcnt = ctx[c].refcnt]
    /\ hist' = [hist EXCEPT ![c].drained = IF w = "return" THEN ctx[c].refcnt
                                           ELSE @,
                            ![c].sleptAt = IF w = "return" THEN @
                                           ELSE ctx[c].refcnt,
                            ![c].sleptOut =
                                IF w = "return" THEN @
                                ELSE Cardinality({i \in 1..Len(sq) :
                                        /\ sq[i].wqe_type = "GET_PSV_TLS"
                                        /\ sq[i].priv_rx = c})]
    /\ UNCHANGED <<ctxPtr, nalloc, ctx, wq, sq, db, napi, stats, tls, bufs,
                   ret, budget>>

\* wait_for_resync, the end of a round: after msleep(20) the loop goes on
\* while time_before(jiffies, exp_time), else netdev_warn with the count read
DelWaitSleep ==
    LET c == del.priv_rx IN
    /\ del.pc = "msleep"
    /\ \E expired \in BOOLEAN :
          LET w == wait_for_resync(del.refcnt, expired) IN
          /\ del' = [del EXCEPT !.pc = CASE w = "sleep" -> "wait_for_resync"
                                         [] OTHER -> "release",
                                !.expired = expired,
                                !.warned = (w = "warn")]
          /\ hist' = [hist EXCEPT ![c].timedOut = (w = "warn")]
    /\ UNCHANGED <<ctxPtr, nalloc, ctx, wq, sq, db, napi, stats, tls, bufs,
                   ret, budget>>

\* the tail of mlx5e_ktls_del_rx: tls_del++, mlx5e_accel_fs_del_sk if a rule
\* is set, mlx5_core_destroy_tir, mlx5_ktls_destroy_key, kfree(priv_rx)
DelRelease ==
    LET c == del.priv_rx
        rel == del_rx_releases(ctx[c])
        Has(x) == \E i \in 1..Len(rel) : rel[i] = x
    IN
    /\ del.pc = "release"
    /\ stats' = [stats EXCEPT !.tls_del = @ + 1]
    /\ ctx' = [ctx EXCEPT ![c].rule = IF Has("rule") THEN "deleted" ELSE @,
                          ![c].tirn = IF Has("tir") THEN "released" ELSE @,
                          ![c].key_id = IF Has("key") THEN "released" ELSE @,
                          ![c].mem = IF Has("mem") THEN "freed" ELSE @]
    /\ hist' = [hist EXCEPT ![c].released = rel]
    /\ del' = [del EXCEPT !.pc = "idle", !.priv_rx = NULL, !.calls = @ + 1,
                          !.refcnt = 0, !.expired = FALSE]
    /\ UNCHANGED <<ctxPtr, nalloc, wq, sq, db, napi, tls, bufs, ret, budget>>

(* --------------------------- specification ---------------------------- *)

FastPath ==
    \E q \in Queues :
        \/ \E sk_ok \in BOOLEAN, datalen \in PktLens :
              FpLookup(q, sk_ok, PktSeq(budget.stim), datalen)
        \/ \E any \in BOOLEAN : FpTest(q, any)
        \/ FpIncQueue(q)

Workers ==
    \E c \in Ctx :
        \/ \E any \in BOOLEAN : ResyncWorkStart(c, any)
        \/ ResyncWorkFinish(c)
        \/ \E any \in BOOLEAN : RuleWorkStart(c, any)
        \/ RuleWorkFinish(c)

Completions ==
    \/ CqeEmpty
    \/ \E any \in BOOLEAN : CtxCompletionTest(any)
    \/ CtxCompletionAct
    \/ GetPsvCompletion

Destroy ==
    \/ DelSetBit
    \/ DelClearCtx
    \/ DelNapiSync
    \/ DelCancelRule
    \/ DelWaitAddCtx
    \/ DelCancelResync
    \/ DelWaitResync
    \/ DelWaitSleep
    \/ DelRelease

Next ==
    \/ Create
    \/ OtherPost
    \/ FastPath
    \/ Workers
    \/ Completions
    \/ RxResync
    \/ Destroy

Spec == Init /\ [][Next]_vars

\* create and destroy calls in any order on a connection with no resync
\* traffic; the shared ICOSQ may hold WQEs of its other users at the start
CallsInit ==
    /\ ctxPtr = NULL
    /\ nalloc = 0
    /\ ctx = [c \in Ctx |-> ZeroCtx]
    /\ wq = [c \in Ctx |-> [rule |-> WorkIdle, resync |-> WorkIdle]]
    /\ sq \in {<<>>, <<Wi("NOP", NULL, 0)>>,
               <<Wi("NOP", NULL, 0), Wi("NOP", NULL, 0)>>}
    /\ db = Len(sq)
    /\ napi = [q \in Queues |-> NapiIdle]
    /\ del = DelIdle
    /\ stats = ZeroStats
    /\ tls = [req_start |-> <<>>, req_end |-> <<>>]
    /\ bufs = 0
    /\ ret = "none"
    /\ budget = [stim |-> 0, resync |-> 0, other |-> 0]
    /\ hist = [c \in Ctx |-> ZeroHist]

CallsNext ==
    \/ CreateAny
    \/ CqeEmpty
    \/ \E any \in BOOLEAN : CtxCompletionTest(any)
    \/ CtxCompletionAct
    \/ \E c \in Ctx, any \in BOOLEAN : RuleWorkStart(c, any)
    \/ \E c \in Ctx : RuleWorkFinish(c)
    \/ DelSetBit
    \/ DelClearCtx
    \/ DelNapiSync
    \/ DelCancelRule
    \/ DelWaitAddCtx
    \/ DelCancelResync
    \/ DelWaitResync
    \/ DelRelease

CallsSpec == CallsInit /\ [][CallsNext]_vars

\* a NAPI poll that has begun the fast path finishes it
FastPathFinish ==
    \E q \in Queues :
        \/ \E any \in BOOLEAN : FpTest(q, any)
        \/ FpIncQueue(q)

\* hardware delivers the completions of the WQEs it was notified of and the
\* channel's NAPI handles them; rx_wq runs the work queued on it; a NAPI
\* poll ends; the thread inside mlx5e_ktls_del_rx is scheduled
FairSpec ==
    /\ Spec
    /\ WF_vars(Completions)
    /\ WF_vars(Workers)
    /\ WF_vars(FastPathFinish)
    /\ WF_vars(Destroy)


(* ------------------------- shared definitions ------------------------- *)

Reverse(q) == [i \in 1..Len(q) |-> q[Len(q) + 1 - i]]

\* WQEs of type `type` queued for context c and not yet completed
Outstanding(c, type) ==
    Cardinality({i \in 1..Len(sq) :
                    sq[i].wqe_type = type /\ sq[i].priv_rx = c})

\* who holds a reference on the resync session of c besides the context:
\* the pending work item, the running worker, every GET_PSV WQE in flight
Holders(c) ==
    (IF wq[c].resync.pending THEN 1 ELSE 0)
        + (IF wq[c].resync.pc # "idle" THEN 1 ELSE 0)
        + Outstanding(c, "GET_PSV_TLS")

\* mlx5e_ktls_del_rx has freed context c
Destroyed(c) == hist[c].created /\ Freed(c)

ResyncSteps == {"fast_path", "resync_work", "get_psv_completion"}

(* ------------------------------- claims ------------------------------- *)

\* C1: when the drain wait of destroy did not time out, no fast-path step,
\* worker step or fetch-progress completion touches the resync session or
\* the context after destroy has freed it.
C1_NoUseAfterFree ==
    \A c \in Ctx :
        (hist[c].created /\ ~hist[c].timedOut)
            => hist[c].uaf \cap ResyncSteps = {}


\* C2: reference-count transitions are balanced: on a live context every
\* step changes the count by exactly as much as it changes the number of
\* reference holders (an increment makes one holder; a holder retires with
\* one decrement, on whichever path it retires).
C2_Balanced ==
    [][\A c \in Ctx :
          (Live(c) /\ Live(c)')
              => ctx'[c].refcnt - ctx[c].refcnt = Holders(c)' - Holders(c)]_vars

\* a fetch-progress completion has given its reference back
C2_Witness ==
    \E c \in Ctx :
        /\ Live(c)
        /\ stats.tls_resync_req_end > 0
        /\ ctx[c].refcnt = 1

\* C3: a context that was created and is not freed has a reference count
\* of at least 1.
C3_RefcntAtLeastOne ==
    \A c \in Ctx : (hist[c].created /\ Live(c)) => ctx[c].refcnt >= 1

\* destroy has cancelled the pending resync work and dropped its reference
C3_Witness ==
    \E c \in Ctx :
        /\ Live(c)
        /\ del.pc = "wait_for_resync"
        /\ hist[c].resyncQuiet = "cancelled"
        /\ ctx[c].refcnt = 1

\* C4: a failed create has released what it acquired in reverse order of
\* acquisition and leaves no context registered on the connection.
C4_FailedCreateLeavesNothing ==
    \A c \in Ctx :
        (Freed(c) /\ ~hist[c].created)
            => /\ hist[c].released = Reverse(hist[c].acquired)
               /\ ctxPtr # c

\* C5: a second destroy on a connection whose context was already
\* destroyed dereferences no absent context.
C5_DestroyIdempotent == ~del.oops

\* C6 as stated: once destroy has returned, the flow-install task of a
\* context whose initial install completed has run exactly once and
\* installation-finished was signalled exactly once.
C6_ExactlyOnce ==
    \A c \in Ctx :
        (Destroyed(c) /\ hist[c].initDone)
            => hist[c].ruleRuns = 1 /\ hist[c].completes = 1

\* C6 amended: the flow-install task runs at most once and
\* installation-finished is signalled at most once; while the deletion flag
\* is clear the task is queued by the install completion and, once it is
\* neither pending nor running, has run once and signalled once; once
\* destroy has returned, either the task ran and signalled, or the
\* completion handler saw the deletion flag and signalled in its place, or
\* destroy cancelled the pending task and nothing was signalled.
C6_AtMostOnce ==
    \A c \in Ctx :
        hist[c].created =>
            /\ hist[c].ruleRuns <= 1
            /\ hist[c].completes <= 1
            /\ hist[c].ruleQueued <= 1
            /\ (/\ hist[c].initDone
                /\ Live(c)
                /\ ~ctx[c].deleting
                /\ ~(napi[RxQ].priv_rx = c /\ napi[RxQ].pc = "queue_work"))
                  => /\ hist[c].ruleQueued = 1
                     /\ wq[c].rule = WorkIdle
                           => hist[c].ruleRuns = 1 /\ hist[c].completes = 1
            /\ (Destroyed(c) /\ hist[c].initDone) =>
                  \/ /\ hist[c].ruleRuns = 1
                     /\ hist[c].completes = 1
                     /\ hist[c].ruleQuiet = "finished"
                  \/ /\ hist[c].ruleRuns = 0
                     /\ hist[c].ruleQueued = 0
                     /\ hist[c].completes = 1
                     /\ hist[c].ruleQuiet = "finished"
                  \/ /\ hist[c].ruleRuns = 0
                     /\ hist[c].ruleQueued = 1
                     /\ hist[c].completes = 0
                     /\ hist[c].ruleQuiet = "cancelled"

\* the task ran while destroy was under way, and destroy has returned
C6_Witness ==
    \E c \in Ctx :
        /\ Destroyed(c)
        /\ hist[c].ruleRuns = 1
        /\ hist[c].completes = 1
        /\ ctx[c].rule = "null"

\* C7: a fetch-progress completion on a live context whose deletion flag
\* is clear forwards cpu_to_be32(hw_seq) once when the response says
\* (TRACKING, NO_OFFLOAD); on any other pair it forwards nothing and counts
\* one skip; it queues no work and posts no descriptor.
C7_ForwardOrSkip ==
    [][\A t \in TrackerStates, a \in AuthStates, s \in HwSeqs :
          (/\ CqeReady("mlx5e_ktls_handle_get_psv_completion")
           /\ Live(Head(sq).priv_rx)
           /\ ~ctx[Head(sq).priv_rx].deleting
           /\ mlx5e_ktls_handle_get_psv_completion(t, a, s, FALSE))
          => /\ wq' = wq
             /\ sq' = Tail(sq)
             /\ IF t = "TRACKING" /\ a = "NO_OFFLOAD"
                THEN /\ tls'.req_end = Append(tls.req_end, cpu_to_be32(s))
                     /\ stats'.tls_resync_req_skip = stats.tls_resync_req_skip
                ELSE /\ tls' = tls
                     /\ stats'.tls_resync_req_skip
                            = stats.tls_resync_req_skip + 1]_vars

\* a sequence number was forwarded and, on another completion, a skip counted
C7_Witness ==
    /\ Len(tls.req_end) = 1
    /\ stats.tls_resync_req_end = 1
    /\ stats.tls_resync_req_skip = 1
    /\ bufs = 0

\* C8 as stated: rx_resync with sequence number S on a live context queues
\* exactly one install-static-parameters descriptor that embeds S.
C8_AlwaysQueued ==
    [][\A S \in ResyncSeqs, n \in RcdSns :
          (IF ctxPtr = NULL THEN FALSE
           ELSE Live(ctxPtr) /\ mlx5e_ktls_rx_resync(S, n))
          => sq' = Append(sq, Wi("UMR_TLS", ctxPtr, S))]_vars

\* C8 amended: rx_resync with sequence number S on a live context queues
\* exactly one install-static-parameters descriptor that embeds S when the
\* submission queue has room, and none when it is full, whatever the
\* reference count.
C8_QueuedIfRoom ==
    [][\A S \in ResyncSeqs, n \in RcdSns :
          (IF ctxPtr = NULL THEN FALSE
           ELSE Live(ctxPtr) /\ mlx5e_ktls_rx_resync(S, n))
          => sq' = IF has_room(sq, 1)
                   THEN Append(sq, Wi("UMR_TLS", ctxPtr, S))
                   ELSE sq]_vars

\* rx_resync has queued its descriptor while the reference count was elevated
C8_Witness ==
    \E c \in Ctx :
        /\ Live(c)
        /\ ctx[c].refcnt = 2
        /\ stats.tls_resync_res_ok = 1
        /\ sq # <<>>
        /\ sq[Len(sq)] = Wi("UMR_TLS", c, ctx[c].seq)
        /\ ctx[c].seq \in ResyncSeqs

\* C9: the deletion flag is never cleared, and once it is set no step
\* queues the resync work or the flow-install work of the context or posts
\* a descriptor for it.
C9_NoNewWorkWhenDeleting ==
    [][\A c \in Ctx :
          (Live(c) /\ ctx[c].deleting)
              => /\ ctx'[c].deleting
                 /\ wq'[c].resync.pending => wq[c].resync.pending
                 /\ wq'[c].rule.pending => wq[c].rule.pending
                 /\ Outstanding(c, "GET_PSV_TLS")' <= Outstanding(c, "GET_PSV_TLS")
                 /\ Outstanding(c, "UMR_TLS")' <= Outstanding(c, "UMR_TLS")]_vars

\* C10: destroy releases the steering rule (only if one was installed),
\* the TIR, the key and the memory in this order, and nothing before the
\* flow-install work was cancelled or has finished, the resync work was
\* cancelled or has finished, and the drain wait read a count of 1 or
\* timed out.
C10_ReleaseAfterQuiescence ==
    \A c \in Ctx :
        hist[c].created =>
            /\ (del.priv_rx = c /\ del.pc # "idle")
                  => /\ Live(c)
                     /\ ctx[c].tirn = "held"
                     /\ ctx[c].key_id = "held"
                     /\ ctx[c].rule # "deleted"
            /\ Freed(c)
                  => /\ hist[c].released =
                           (IF hist[c].installs > 0 THEN <<"rule">> ELSE <<>>)
                               \o <<"tir", "key", "mem">>
                     /\ hist[c].ruleQuiet \in {"cancelled", "finished"}
                     /\ wq[c].rule = WorkIdle
                     /\ hist[c].resyncQuiet \in {"cancelled", "finished"}
                     /\ hist[c].drained = 1 \/ hist[c].timedOut

\* destroy has released an installed rule and the rest after a drain wait
\* that had to wait for a fetch-progress completion
C10_Witness ==
    \E c \in Ctx :
        /\ Destroyed(c)
        /\ hist[c].released = <<"rule", "tir", "key", "mem">>
        /\ hist[c].drained = 1
        /\ stats.tls_resync_req_start > 0


\* in the drain wait of destroy on context c
InDrainWait(c) == del.priv_rx = c /\ del.pc \in {"wait_for_resync", "msleep"}

C12_ReturnsOnFirstRead ==
    [][\A c \in Ctx :
          (del.priv_rx = c /\ del.pc = "wait_for_resync"
              /\ hist[c].sleptAt = 0)
            => /\ stats.tls_resync_req_start = 0 => ctx[c].refcnt = 1
               /\ (ctx[c].refcnt = 1 /\ del' # del)
                     => /\ del'.pc = "release"
                        /\ ~del'.warned
                        /\ hist'[c].sleptAt = 0
                        /\ hist'[c].drained = 1]_vars

\* every triggered resync had completed, destroy never slept and has
\* released everything
C12_Witness ==
    \E c \in Ctx :
        /\ Destroyed(c)
        /\ hist[c].sleptAt = 0
        /\ hist[c].drained = 1
        /\ stats.tls_resync_req_end = 1
        /\ hist[c].released = <<"rule", "tir", "key", "mem">>

\* C13: once the timeout of the drain wait has expired destroy waits no
\* longer: it has logged the warning, for a count it read that was not 1,
\* and goes on to release the rule (if installed), the TIR, the key and
\* the memory.
C13_TimeoutProceeds ==
    \A c \in Ctx :
        hist[c].created =>
            /\ (del.priv_rx = c /\ del.expired)
                  => del.pc = "release" /\ del.warned /\ hist[c].timedOut
            /\ hist[c].timedOut => hist[c].sleptAt > 1
            /\ (Freed(c) /\ hist[c].timedOut)
                  => /\ hist[c].released =
                           (IF hist[c].installs > 0 THEN <<"rule">> ELSE <<>>)
                               \o <<"tir", "key", "mem">>
                     /\ ctx[c].tirn = "released"
                     /\ ctx[c].key_id = "released"
                     /\ ctx[c].rule # "installed"

\* the drain wait timed out on a fetch-progress descriptor that never
\* completed, and destroy has released everything
C13_Witness ==
    \E c \in Ctx :
        /\ Destroyed(c)
        /\ hist[c].timedOut
        /\ del.warned
        /\ Outstanding(c, "GET_PSV_TLS") = 1
        /\ hist[c].released = <<"rule", "tir", "key", "mem">>


\* C14: whenever destroy waits for the installation-finished signal (it
\* found no pending flow-install work to cancel) the signal is eventually
\* raised and destroy passes the wait; the signal is raised at most once
\* per context, so the waiter is released once.
C14_WaiterReleased ==
    /\ [](\A c \in Ctx :
             hist[c].created => hist[c].completes <= 1 /\ ctx[c].add_ctx <= 1)
    /\ \A c \in Ctx :
          (del.priv_rx = c /\ del.pc = "wait_for_completion")
              ~> (hist[c].ruleQuiet = "finished")

\* destroy is blocked in wait_for_completion: the install completion has
\* not been handled yet and nothing has signalled
C14_Witness ==
    \E c \in Ctx :
        /\ del.priv_rx = c
        /\ del.pc = "wait_for_completion"
        /\ ctx[c].add_ctx = 0
        /\ Outstanding(c, "SET_PSV_TLS") = 1


\* C15: the resync worker, on a live context, branches on the deletion flag
\* it reads; on the flag it decrements the count and posts nothing;
\* otherwise either the post fails, and it decrements the count, counts one
\* skip, posts nothing and queues no retry, or it posts exactly one
\* fetch-progress descriptor, rings the doorbell and leaves the count as it
\* is.
C15_WorkerStep ==
    [][\A c \in Ctx :
          Live(c) =>
            /\ (wq[c].resync.pc = "idle" /\ wq'[c].resync.pc # "idle")
                  => /\ wq[c].resync.pending /\ ~wq'[c].resync.pending
                     /\ wq'[c].resync.pc = IF ctx[c].deleting
                                           THEN "refcount_dec" ELSE "post"
                     /\ ctx' = ctx /\ sq' = sq /\ stats' = stats
            /\ (wq[c].resync.pc # "idle" /\ wq'[c].resync.pc = "idle")
                  => /\ wq'[c].resync.pending = wq[c].resync.pending
                     /\ tls' = tls
                     /\ IF wq[c].resync.pc = "refcount_dec"
                        THEN /\ ctx'[c].refcnt = ctx[c].refcnt - 1
                             /\ sq' = sq /\ db' = db /\ stats' = stats
                        ELSE \/ /\ sq' = sq /\ db' = db
                                /\ ctx'[c].refcnt = ctx[c].refcnt - 1
                                /\ stats' = [stats EXCEPT
                                               !.tls_resync_req_skip = @ + 1]
                             \/ /\ sq' = Append(sq, Wi("GET_PSV_TLS", c, 0))
                                /\ db' = Len(sq')
                                /\ ctx'[c].refcnt = ctx[c].refcnt
                                /\ stats' = stats]_vars

\* the worker's post has failed after the buffer was allocated: one skip,
\* the reference given back, nothing posted
C15_Witness ==
    \E c \in Ctx :
        /\ Live(c)
        /\ ~ctx[c].deleting
        /\ wq[c].resync = WorkIdle
        /\ stats.tls_resync_req_start = 1
        /\ stats.tls_resync_req_skip = 1
        /\ ctx[c].refcnt = 1
        /\ Outstanding(c, "GET_PSV_TLS") = 0
        /\ bufs = 1


\* C16: the fast path returns at once when the connection has no context,
\* and after the test when the (live) context's deletion flag is set, and
\* then changes no count, queues no work and tells the record layer
\* nothing; otherwise it increments the count and queues the resync work,
\* and when the work was already pending it decrements again: the count
\* rises by one exactly when the work was newly queued.
C16_FastPathRefusal ==
    [][\A q \in Queues :
          /\ (napi[q].pc = "idle" /\ budget'.stim # budget.stim
                 /\ ctxPtr = NULL)
                => napi' = napi /\ ctx' = ctx /\ wq' = wq /\ tls' = tls
          /\ (napi[q].pc = "test_bit" /\ napi'[q] # napi[q]
                 /\ Live(napi[q].priv_rx))
                => /\ ctx' = ctx /\ wq' = wq /\ tls' = tls
                   /\ stats' = stats
                   /\ IF ctx[napi[q].priv_rx].deleting
                      THEN napi'[q] = NapiIdle
                      ELSE napi'[q] = [napi[q] EXCEPT !.pc = "refcount_inc"]
          /\ (napi[q].pc = "refcount_inc" /\ napi'[q] # napi[q]
                 /\ Live(napi[q].priv_rx))
                => LET c == napi[q].priv_rx IN
                   /\ napi'[q] = NapiIdle
                   /\ IF wq[c].resync.pending
                      THEN ctx' = ctx /\ wq' = wq
                      ELSE /\ ctx'[c].refcnt = ctx[c].refcnt + 1
                           /\ wq'[c].resync.pending
                           /\ wq'[c].resync.pc = wq[c].resync.pc]_vars

\* a second stimulus found the work pending: two requests started, one
\* reference held by the pending work
C16_Witness ==
    \E c \in Ctx :
        /\ Live(c)
        /\ stats.tls_resync_req_start = 2
        /\ wq[c].resync = [pending |-> TRUE, pc |-> "idle"]
        /\ Outstanding(c, "GET_PSV_TLS") = 0
        /\ stats.tls_resync_req_skip = 0
        /\ ctx[c].refcnt = 2

\* C17: a stimulus that passed the two tests tells the record layer once
\* that a resync is wanted, with th->seq and the payload length of the
\* packet that was looked up, and counts one request start, whether or not
\* the work was newly queued; no other step tells it so.
C17_OneRequestStart ==
    [][/\ \A q \in Queues :
             (napi[q].pc = "refcount_inc" /\ napi'[q] # napi[q])
                => /\ tls'.req_start =
                          Append(tls.req_start, [seq |-> napi[q].seq,
                                                 len |-> napi[q].datalen])
                      /\ napi[q].seq \in PktSeqs
                      /\ napi[q].datalen \in PktLens
                      /\ stats'.tls_resync_req_start
                             = stats.tls_resync_req_start + 1
       /\ (\A q \in Queues :
              ~(napi[q].pc = "refcount_inc" /\ napi'[q] # napi[q]))
             => /\ tls'.req_start = tls.req_start
                /\ stats'.tls_resync_req_start = stats.tls_resync_req_start
       /\ Len(tls.req_start) = stats.tls_resync_req_start]_vars

\* two stimuli on a live context, the second while the work was pending:
\* the record layer was told of both segments
C17_Witness ==
    \E c \in Ctx :
        /\ Live(c)
        /\ wq[c].resync.pending
        /\ ctx[c].refcnt = 2
        /\ tls.req_start = <<[seq |-> PktSeq(0), len |-> 1448],
                             [seq |-> PktSeq(1), len |-> 1448]>>


\* C18: a fetch-progress completion on a live context decrements the
\* count by one and frees its one response buffer on each branch: flag set
\* (nothing forwarded, no statistic), response not (TRACKING, NO_OFFLOAD)
\* (one skip counted, nothing forwarded), and otherwise (the sequence
\* number forwarded, one request end counted).
C18_CompletionDecAndFree ==
    [][(/\ CqeReady("mlx5e_ktls_handle_get_psv_completion")
        /\ Live(Head(sq).priv_rx)
        /\ sq' = Tail(sq))
          => LET c == Head(sq).priv_rx IN
             /\ ctx'[c].refcnt = ctx[c].refcnt - 1
             /\ bufs' = bufs - 1
             /\ wq' = wq
             /\ \/ /\ ctx[c].deleting
                   /\ tls' = tls /\ stats' = stats
                \/ /\ ~ctx[c].deleting
                   /\ tls' = tls
                   /\ stats' = [stats EXCEPT !.tls_resync_req_skip = @ + 1]
                \/ /\ ~ctx[c].deleting
                   /\ \E s \in HwSeqs :
                         tls' = [tls EXCEPT
                                   !.req_end = Append(@, cpu_to_be32(s))]
                   /\ stats' = [stats EXCEPT !.tls_resync_req_end = @ + 1]]_vars

\* a completion was handled with the deletion flag set: destroy had slept
\* on a count of 2, the count is 1 again, the buffer is freed, nothing was
\* forwarded or counted
C18_Witness ==
    \E c \in Ctx :
        /\ Live(c)
        /\ ctx[c].deleting
        /\ hist[c].sleptAt = 2
        /\ hist[c].sleptOut = 1
        /\ Outstanding(c, "GET_PSV_TLS") = 0
        /\ ctx[c].refcnt = 1
        /\ bufs = 0
        /\ stats.tls_resync_req_end = 0
        /\ stats.tls_resync_req_skip = 0

\* C19: a successful create appends to the submission queue exactly the
\* install-static-parameters descriptor and then the
\* install-progress-parameters descriptor of the new context, the second
\* with the caller's starting sequence number, notifies hardware once, of
\* the whole queue, and leaves the count at 1.
C19_CreateQueuesPair ==
    [][\A sn \in StartSns, n \in CryptoRecSeqs :
          (mlx5e_ktls_add_rx(n, sn, "OK") /\ ret' = "OK")
            => LET c == nalloc' IN
               /\ sq' = sq \o <<Wi("UMR_TLS", c, 0), Wi("SET_PSV_TLS", c, sn)>>
               /\ db' = Len(sq')
               /\ hist'[c].notified = 1
               /\ ctx'[c].refcnt = 1
               /\ ctxPtr' = c]_vars

\* create has succeeded behind a descriptor of another user of the queue
C19_Witness ==
    \E c \in Ctx :
        /\ ret = "OK"
        /\ ctx[c].refcnt = 1
        /\ db = 3
        /\ sq = <<Wi("NOP", NULL, 0), Wi("UMR_TLS", c, 0),
                  Wi("SET_PSV_TLS", c, 1000)>>

\* C20: the flow-install task installs at most one steering rule per
\* context; when it reads the deletion flag as set it installs nothing and
\* still signals installation-finished once.
C20_RuleAtMostOnce ==
    [][\A c \in Ctx :
          /\ hist[c].installs <= 1
          /\ hist[c].ruleRuns <= 1
          /\ Live(c) =>
               /\ (wq[c].rule.pc = "idle" /\ wq'[c].rule.pc # "idle")
                     => wq'[c].rule.pc = IF ctx[c].deleting
                                         THEN "out" ELSE "add_sk"
               /\ (wq[c].rule.pc = "out" /\ wq'[c].rule.pc = "idle")
                     => /\ ctx'[c].rule = ctx[c].rule
                        /\ hist'[c].installs = hist[c].installs
                        /\ ctx'[c].add_ctx = ctx[c].add_ctx + 1
                        /\ hist'[c].completes = hist[c].completes + 1
               /\ (wq[c].rule.pc = "add_sk" /\ wq'[c].rule.pc = "idle")
                     => /\ ctx[c].rule = "null"
                        /\ ctx'[c].rule \in {"null", "installed"}
                        /\ ctx'[c].add_ctx = ctx[c].add_ctx + 1]_vars

\* the task ran after destroy had set the flag: no rule, one signal, while
\* the authoritative answer had re-issued the static parameters
C20_Witness ==
    \E c \in Ctx :
        /\ Live(c)
        /\ hist[c].ruleOut = 1
        /\ hist[c].installs = 0
        /\ ctx[c].rule = "null"
        /\ ctx[c].add_ctx = 1
        /\ stats.tls_resync_res_ok = 1


\* C21: a call of mlx5e_ktls_rx_resync queues no work; with no context it
\* changes nothing; on a live context it writes resync.sw_rcd_sn_be,
\* resync.seq and crypto_info.rec_seq and no other field: the reference
\* count is as before whether the descriptor was posted or the queue full.
C21_RefcountUntouched ==
    [][\A S \in ResyncSeqs, n \in RcdSns :
          /\ (ctxPtr = NULL /\ budget'.resync # budget.resync)
                => /\ ctx' = ctx /\ wq' = wq /\ sq' = sq /\ stats' = stats
          /\ (IF ctxPtr = NULL THEN FALSE
              ELSE Live(ctxPtr) /\ mlx5e_ktls_rx_resync(S, n))
                => /\ wq' = wq
                   /\ ctx' = [ctx EXCEPT ![ctxPtr].sw_rcd_sn_be = n,
                                         ![ctxPtr].seq = S,
                                         ![ctxPtr].rec_seq = n]]_vars

\* the answer came while a resync work was pending: the three fields are
\* written, the count is still 2, the work still pending
C21_Witness ==
    \E c \in Ctx :
        /\ Live(c)
        /\ budget.resync = 1
        /\ ctx[c].sw_rcd_sn_be = 7
        /\ ctx[c].rec_seq = 7
        /\ ctx[c].seq = 1050
        /\ ctx[c].refcnt = 2
        /\ wq[c].resync = [pending |-> TRUE, pc |-> "idle"]

\* C22: a call of mlx5e_ktls_rx_resync on a live context makes one
\* attempt: with room in the queue it posts one descriptor, rings the
\* doorbell and counts tls_resync_res_ok once; with the queue full it posts
\* nothing and counts tls_resync_res_skip once; the other counter and the
\* work items are as before.
C22_OkOrSkip ==
    [][(IF ctxPtr = NULL THEN FALSE
        ELSE Live(ctxPtr) /\ budget'.resync # budget.resync)
          => /\ budget'.resync = budget.resync + 1
             /\ wq' = wq
             /\ IF has_room(sq, 1)
                THEN /\ Len(sq') = Len(sq) + 1
                     /\ db' = Len(sq')
                     /\ stats' = [stats EXCEPT !.tls_resync_res_ok = @ + 1]
                ELSE /\ sq' = sq
                     /\ db' = db
                     /\ stats' = [stats EXCEPT
                                    !.tls_resync_res_skip = @ + 1]]_vars

\* the answer found the queue full: one skip, no success, nothing queued
C22_Witness ==
    \E c \in Ctx :
        /\ Live(c)
        /\ budget.resync = 1
        /\ stats.tls_resync_res_skip = 1
        /\ stats.tls_resync_res_ok = 0
        /\ Len(sq) = SqSize
        /\ Outstanding(c, "UMR_TLS") = 1

\* C23: once destroy has dealt with the resync work (cancel_work_sync has
\* returned) no fast path, on whichever receive queue, that read the flag
\* of the context as clear is still before its increment and hand-off.
C23_FastPathOrdered ==
    \A c \in Ctx, q \in Queues :
        hist[c].resyncQuiet # "no"
            => ~(napi[q].priv_rx = c /\ napi[q].pc = "refcount_inc")

\* C24 as stated: every stimulus on a live context that passes the tests
\* raises the count by one.
C24_EachIncrements ==
    [][\A q \in Queues :
          (/\ napi[q].pc = "refcount_inc"
           /\ napi'[q] # napi[q]
           /\ Live(napi[q].priv_rx))
            => ctx'[napi[q].priv_rx].refcnt
                   = ctx[napi[q].priv_rx].refcnt + 1]_vars

\* C24 amended: a stimulus on a live context that finds the resync work
\* not pending raises the count by one and queues the work; one that finds
\* it pending leaves the count as it is and is served by the pending work;
\* when no work is pending or running and no fetch-progress descriptor is
\* outstanding the count is 1.
C24_CoalescedWhenPending ==
    [][\A c \in Ctx :
          (Live(c) /\ hist[c].created) =>
            /\ \A q \in Queues :
                  (/\ napi[q].pc = "refcount_inc"
                   /\ napi[q].priv_rx = c
                   /\ napi'[q] # napi[q])
                    => /\ ctx'[c].refcnt = ctx[c].refcnt
                              + (IF wq[c].resync.pending THEN 0 ELSE 1)
                       /\ wq'[c].resync.pending
            /\ Holders(c) = 0 => ctx[c].refcnt = 1]_vars

\* two stimuli, the second while the work was pending, one worker step,
\* one completion: the count is back to 1
C24_Witness ==
    \E c \in Ctx :
        /\ Live(c)
        /\ ~ctx[c].deleting
        /\ stats.tls_resync_req_start = 2
        /\ stats.tls_resync_req_end = 1
        /\ stats.tls_resync_req_skip = 0
        /\ Holders(c) = 0
        /\ bufs = 0
        /\ ctx[c].refcnt = 1

\* C25: every context that is allocated and not freed is the one
\* registered on the connection or the one destroy is releasing, and there
\* is at most one.
C25_OneLiveContext ==
    /\ Cardinality({c \in Ctx : Live(c)}) <= 1
    /\ \A c \in Ctx : Live(c) => (ctxPtr = c \/ del.priv_rx = c)

\* C26: whenever the resync worker of a live context is not running, the
\* count is 1, plus 1 if the resync work is pending, plus the number of
\* fetch-progress descriptors posted for the context and not completed.
C26_Accounting ==
    \A c \in Ctx :
        (Live(c) /\ hist[c].created /\ wq[c].resync.pc = "idle")
            => ctx[c].refcnt = 1 + (IF wq[c].resync.pending THEN 1 ELSE 0)
                                 + Outstanding(c, "GET_PSV_TLS")

\* a descriptor is outstanding and the work is pending again: the count is 3
C26_Witness ==
    \E c \in Ctx :
        /\ Live(c)
        /\ wq[c].resync = [pending |-> TRUE, pc |-> "idle"]
        /\ Outstanding(c, "GET_PSV_TLS") = 1
        /\ ctx[c].refcnt = 3

\* C27: the response buffers allocated and not freed are as many as the
\* fetch-progress descriptors outstanding.
C27_BuffersMatchDescriptors ==
    bufs = Cardinality({i \in 1..Len(sq) : sq[i].wqe_type = "GET_PSV_TLS"})

\* C28: no descriptor in the queue refers to a context that a failed
\* create has freed.
C28_NoStaleDescriptor ==
    \A c \in Ctx :
        (Freed(c) /\ ~hist[c].created)
            => \A i \in 1..Len(sq) : sq[i].priv_rx # c

C30_NoRuleOutlivesContext ==
    \A c \in Ctx :
        hist[c].created =>
            /\ "rule_work" \notin hist[c].uaf
            /\ Live(c) => (ctx[c].rule = "installed" <=> hist[c].installs = 1)
            /\ Live(c) => ctx[c].rule \in {"null", "installed"}
            /\ Freed(c) =>
                  /\ wq[c].rule = WorkIdle
                  /\ IF hist[c].installs > 0
                     THEN /\ ctx[c].rule = "deleted"
                          /\ hist[c].released[1] = "rule"
                     ELSE /\ ctx[c].rule = "null"
                          /\ \A i \in 1..Len(hist[c].released) :
                                hist[c].released[i] # "rule"

\* the task read the flag as clear, destroy set it, the task installed the
\* rule, and destroy removed it before it freed the context
C30_Witness ==
    \E c \in Ctx :
        /\ Destroyed(c)
        /\ hist[c].ruleLate = 1
        /\ ctx[c].rule = "deleted"
        /\ hist[c].released = <<"rule", "tir", "key", "mem">>

=============================================================================
